---- MODULE Spec2Model ----
(***************************************************************************)
(* The OAuth 2.0 PKCE / token-lifecycle core of vibeguess-react:           *)
(* AuthService (login initiation, callback exchange, single-flight         *)
(* refresh, profile fetch with one retry, wrapped API request, logout),    *)
(* the ephemeral OAuth storage and the token store it works on, the auth   *)
(* store's expiry check, initialize() and actions, and the callback page.  *)
(*                                                                         *)
(* One browser tab: a single event loop.  Every action below is one run of *)
(* the event loop from a call or a network response to the next await, so  *)
(* code between two awaits is atomic and continuations of one settled      *)
(* promise run together, before any other response is handled.             *)
(***************************************************************************)
EXTENDS Integers, Sequences, FiniteSets, TLC

(* ------------------------------ bounds --------------------------------- *)

\* Caller slots (async operations in flight at once).
MaxCallers == 3
\* Cap on the requests one spotifyApiRequest call may send in the model; the
\* code's recursion has no cap of its own.
MaxApiSends == 3
\* Clock ticks the expiry specification lets pass.
MaxTicks == 2
\* Longest state string given to validateState on its own.
MaxStateLen == 2

(* ------------------------- program constants --------------------------- *)

\* storeTokens: tokens.expires_in || 3600
DEFAULT_EXPIRES_IN == 3600
\* isTokenExpired: 5 * 60 * 1000
REFRESH_BUFFER_MS == 300000
\* generateState: generateRandomString(32)
STATE_LENGTH == 32
\* generateRandomString: chars.length of 'A..Za..z0..9'
ALPHABET_SIZE == 62
\* generateRandomString: new Uint8Array(length) holds values below 256
BYTE_RANGE == 256

(* ----------------------------- value sets ------------------------------ *)

Tasks == 1..MaxCallers
\* Promise ids of refresh IIFEs: one per waiting creator plus a settled one
\* the holder may still reference.
PromIds == 1..(MaxCallers + 1)
\* Access / refresh token strings the backend can issue (0: field absent).
AccessTokens == {1, 2}
RefreshTokens == {1, 2}
\* expires_in values of a token payload (0: field absent or zero).
ExpiresIns == {0, 120}
\* PKCE verifiers (0: absent).
Verifiers == {1, 2}
\* CSRF state strings, as sequences of character codes.
LoginStates == {<<1, 1>>, <<1, 2>>}
ReceivedStates == LoginStates \cup {<<>>, <<1>>}
NoState == <<>>
\* Strings over three character codes, the empty string (or null) included.
StateChars == {1, 2, 3}
StateStrings == UNION {[1..k -> StateChars] : k \in 0..MaxStateLen}

NoTokens ==
  [present |-> FALSE, access_token |-> 0, refresh_token |-> 0,
   expires_in |-> 0, expires_at |-> 0]

\* page: the status of the CallbackPage that started the operation ("none":
\* not started by a page); ret: the token set authService.handleCallback
\* returned to useAuthActions.handleCallback; comparisons: the character
\* positions a validateState call has examined.
IdleTask ==
  [op |-> "none", pc |-> "idle", wait |-> 0, sends |-> 0, refreshes |-> 0,
   result |-> "none", got |-> 0, st |-> NoState, page |-> "none",
   ret |-> NoTokens, comparisons |-> 0]

FreeProm == [st |-> "free", rt |-> 0]

VARIABLES
  msw,            \* import.meta.env.DEV && VITE_ENABLE_MSW === 'true'
  clientId,       \* AuthService.clientId: VITE_SPOTIFY_CLIENT_ID is configured
  now,            \* Date.now(), in ms
  tokenStore,     \* localStorage 'auth_tokens'
  authUser,       \* localStorage 'auth_user' present
  oauthState,     \* sessionStorage 'oauth_state' (<<>>: absent)
  pkceVerifier,   \* sessionStorage 'oauth_code_verifier' (0: absent)
  refreshInFlight,\* AuthService.refreshInFlight (0: null, else a promise id)
  proms,          \* refresh IIFE promises: pending (request in flight), rejected, free
  tasks,          \* the async operations in flight, one record per caller
  store,          \* the zustand auth store
  exchangesSinceLogin  \* history: token-exchange requests sent since the last state store

vars ==
  <<msw, clientId, now, tokenStore, authUser, oauthState, pkceVerifier, refreshInFlight,
    proms, tasks, store, exchangesSinceLogin>>

(* --------------------------- pure functions ---------------------------- *)

\* chars[index] of generateRandomString, as a character code:
\* 'A'..'Z' are 65..90, 'a'..'z' are 97..122, '0'..'9' are 48..57.
CharAt(index) ==
  IF index < 26 THEN 65 + index
  ELSE IF index < 52 THEN 97 + (index - 26)
  ELSE 48 + (index - 52)

\* generateRandomString(length), given what crypto.getRandomValues wrote.
generateRandomString(length, randomArray) ==
  [i \in 1..length |-> CharAt(randomArray[i] % ALPHABET_SIZE)]

generateState(randomArray) == generateRandomString(STATE_LENGTH, randomArray)

\* Outputs of crypto.getRandomValues for a Uint8Array(32): constant arrays and
\* ramps, over the byte values around the alphabet size and the byte limit.
RandomSeeds == {0, 25, 61, 62, 255}
RandomStrides == {0, 1, 7}
RandomArrays ==
  {[i \in 1..STATE_LENGTH |-> (seed + (i - 1) * stride) % BYTE_RANGE] :
     seed \in RandomSeeds, stride \in RandomStrides}

\* Character codes matched by /^[A-Za-z0-9]+$/.
Alphanumeric == (65..90) \cup (97..122) \cup (48..57)

\* The state field of the login endpoint's answer: absent, the 28-character
\* 'abcdef1234567890123456789012' of the contract test's backend, or a
\* 32-character alphanumeric string.
ContractTestState ==
  <<97, 98, 99, 100, 101, 102,
    49, 50, 51, 52, 53, 54, 55, 56, 57, 48,
    49, 50, 51, 52, 53, 54, 55, 56, 57, 48,
    49, 50>>
BackendStates ==
  {NoState, ContractTestState, [i \in 1..STATE_LENGTH |-> 65]}

RECURSIVE BitXor(_, _)
BitXor(a, b) ==
  IF a = 0 /\ b = 0 THEN 0
  ELSE (((a % 2) + (b % 2)) % 2) + 2 * BitXor(a \div 2, b \div 2)

RECURSIVE BitOr(_, _)
BitOr(a, b) ==
  IF a = 0 /\ b = 0 THEN 0
  ELSE (IF a % 2 = 1 \/ b % 2 = 1 THEN 1 ELSE 0) + 2 * BitOr(a \div 2, b \div 2)

\* The accumulation loop of validateState: result |= r[i] ^ e[i], i = 0..len-1.
RECURSIVE XorAccumulateOverwrites(_, _, _, _)
XorAccumulateOverwrites(r, e, i, acc) ==
  IF i > Len(r) THEN acc
  ELSE XorAccumulateOverwrites(r, e, i + 1, BitXor(r[i], e[i]))

RECURSIVE XorAccumulate(_, _, _, _)
XorAccumulate(r, e, i, acc) ==
  IF i > Len(r) THEN acc
  ELSE XorAccumulate(r, e, i + 1, BitOr(acc, BitXor(r[i], e[i])))

\* The iterations of validateState's loop from position i on, n done so far:
\* for (let i = 0; i < receivedState.length; i++), with no break.
RECURSIVE LoopIterationsStopAtMismatch(_, _, _, _)
LoopIterationsStopAtMismatch(r, e, i, n) ==
  IF i > Len(r) THEN n
  ELSE IF r[i] # e[i] THEN n + 1
  ELSE LoopIterationsStopAtMismatch(r, e, i + 1, n + 1)

RECURSIVE LoopIterations(_, _, _, _)
LoopIterations(r, e, i, n) ==
  IF i > Len(r) THEN n
  ELSE LoopIterations(r, e, i + 1, n + 1)

\* The number of character positions a validateState call examines: none when
\* it returns at one of its two checks.
validateStateComparisons(receivedState, expectedState) ==
  IF Len(receivedState) = 0 \/ Len(expectedState) = 0 THEN 0
  ELSE IF Len(receivedState) # Len(expectedState) THEN 0
  ELSE LoopIterations(receivedState, expectedState, 1, 0)

validateStateLengthOnly(receivedState, expectedState) ==
  IF Len(receivedState) = 0 \/ Len(expectedState) = 0 THEN FALSE
  ELSE Len(receivedState) = Len(expectedState)

validateState(receivedState, expectedState) ==
  IF Len(receivedState) = 0 \/ Len(expectedState) = 0 THEN FALSE
  ELSE IF Len(receivedState) # Len(expectedState) THEN FALSE
  ELSE XorAccumulate(receivedState, expectedState, 1, 0) = 0

\* The record storeTokens writes at time t for a payload.
StoredRecordKeepsAccess(access, refresh, expiresIn, t) ==
  LET e == IF expiresIn # 0 THEN expiresIn ELSE DEFAULT_EXPIRES_IN
  IN [present |-> TRUE,
      access_token |-> IF tokenStore.present THEN tokenStore.access_token ELSE access,
      refresh_token |-> refresh,
      expires_in |-> e, expires_at |-> t + e * 1000]

StoredRecordKeepsExpiry(access, refresh, expiresIn, t) ==
  LET e == IF expiresIn # 0 THEN expiresIn ELSE DEFAULT_EXPIRES_IN
  IN [present |-> TRUE, access_token |-> access, refresh_token |-> refresh,
      expires_in |-> e,
      expires_at |-> IF tokenStore.present THEN tokenStore.expires_at
                     ELSE t + e * 1000]

StoredRecord(access, refresh, expiresIn, t) ==
  LET e == IF expiresIn # 0 THEN expiresIn ELSE DEFAULT_EXPIRES_IN
  IN [present |-> TRUE, access_token |-> access, refresh_token |-> refresh,
      expires_in |-> e, expires_at |-> t + e * 1000]

\* The auth store's expiry check at time t.
isTokenExpired(tokens, t) ==
  IF ~tokens.present THEN TRUE
  ELSE LET expiryTime == t + tokens.expires_in * 1000
           fiveMinutesFromNow == t + REFRESH_BUFFER_MS
       IN expiryTime <= fiveMinutesFromNow

isAuthenticated == tokenStore.present /\ tokenStore.access_token # 0

(* ------------------------ the zustand auth store ----------------------- *)

InitialStore ==
  [isAuthenticated |-> FALSE, user |-> FALSE, tokens |-> NoTokens,
   isLoading |-> FALSE, error |-> ""]

setTokens(s, tokens) ==
  [s EXCEPT !.tokens = tokens, !.isAuthenticated = TRUE, !.error = ""]

setUser(s, user) == [s EXCEPT !.user = user, !.isAuthenticated = user]

setLoading(s, isLoading) == [s EXCEPT !.isLoading = isLoading]

setError(s, error) == [s EXCEPT !.error = error, !.isLoading = FALSE]

clearError(s) == [s EXCEPT !.error = ""]

\* What useAuthStore.logout() sets the store to.
storeLogout(s) ==
  [isAuthenticated |-> FALSE, user |-> FALSE, tokens |-> NoTokens,
   isLoading |-> FALSE, error |-> ""]

(* ------------------- AuthService.refreshToken: the call ---------------- *)

\* What the synchronous part of refreshToken() does in the current state:
\* "throw" (no refresh token: the catch clears the tokens), "join" a pending
\* holder, receive the "rejected" holder, or "start" a new exchange.
RefreshCallKindNoDedupe ==
  IF tokenStore.refresh_token = 0 THEN "throw" ELSE "start"

RefreshCallKindJoinsFirst ==
  IF refreshInFlight # 0
  THEN (IF proms[refreshInFlight].st = "pending" THEN "join" ELSE "rejected")
  ELSE IF tokenStore.refresh_token = 0 THEN "throw" ELSE "start"

RefreshCallKind ==
  IF tokenStore.refresh_token = 0 THEN "throw"
  ELSE IF refreshInFlight # 0
       THEN (IF proms[refreshInFlight].st = "pending" THEN "join" ELSE "rejected")
       ELSE "start"

FreshProm == CHOOSE p \in PromIds :
  /\ proms[p].st = "free"
  /\ \A q \in PromIds : proms[q].st = "free" => p <= q

\* The promise the caller ends up awaiting (0: the call failed at once).
AwaitedProm(kind) ==
  IF kind = "start" THEN FreshProm
  ELSE IF kind = "join" THEN refreshInFlight
  ELSE 0

HolderAfterCall(kind) == IF kind = "start" THEN FreshProm ELSE refreshInFlight

\* A settled promise nothing references any more is dropped.
PromsAfterCall(kind) ==
  IF kind = "start"
  THEN [p \in PromIds |->
          IF p = FreshProm
          THEN [st |-> "pending", rt |-> tokenStore.refresh_token]
          ELSE IF proms[p].st = "rejected" THEN FreeProm ELSE proms[p]]
  ELSE proms

TokensAfterCall(kind) == IF kind = "throw" THEN NoTokens ELSE tokenStore

(* ----------------------- continuations of a caller --------------------- *)

Done(r, res) == [r EXCEPT !.pc = "done", !.result = res, !.wait = 0]

\* getCurrentUser rejected with err: what the operation around it does.
\* handleCallback clears the tokens and reports a validation failure,
\* initialize() reports init_failed (and logs out); see StorageAfter below.
MeFailed(r, err) ==
  CASE r.op \in {"callback", "storeCallback"} -> Done(r, "PostExchangeValidationFailed")
    [] r.op = "init" -> Done(r, "init_failed")
    [] OTHER -> Done(r, err)

\* The synchronous part of getCurrentUser(attemptRefresh) over token store ts.
SendMeAlwaysRefreshes(r, ts, attemptRefresh) ==
  IF ts.access_token = 0 THEN MeFailed(r, "NoAccessToken")
  ELSE [r EXCEPT !.pc = "me", !.sends = @ + 1, !.wait = 0]

SendMe(r, ts, attemptRefresh) ==
  IF ts.access_token = 0 THEN MeFailed(r, "NoAccessToken")
  ELSE [r EXCEPT !.pc = IF attemptRefresh THEN "me" ELSE "meRetry",
                 !.sends = @ + 1, !.wait = 0]

\* authService.handleCallback resolved over token store ts.  Called through
\* useAuthActions.handleCallback (op "storeCallback"), the action goes on to
\* its own getCurrentUser() (op "storeProfile").
CallbackOk(r, ts) ==
  IF r.op = "storeCallback" THEN SendMe([r EXCEPT !.op = "storeProfile"], ts, TRUE)
  ELSE Done(r, "ok")

\* getCurrentUser resolved; the token store is as the caller left it.
MeOk(r) == CallbackOk(r, tokenStore)

\* The synchronous part of spotifyApiRequest over token store ts; got is the
\* access token the request carries in its Authorization header.
SendApiStaleToken(r, ts) ==
  IF ts.access_token = 0 THEN Done(r, "NoAccessToken")
  ELSE [r EXCEPT !.pc = "api", !.sends = @ + 1, !.wait = 0,
                 !.got = IF r.got # 0 THEN r.got ELSE ts.access_token]

SendApi(r, ts) ==
  IF ts.access_token = 0 THEN Done(r, "NoAccessToken")
  ELSE [r EXCEPT !.pc = "api", !.sends = @ + 1, !.wait = 0,
                 !.got = ts.access_token]

\* The awaited refresh resolved; ts is the token store it wrote, acc the
\* access token of the token set it returned.
ResumeOk(r, ts, acc) ==
  CASE r.pc = "refresh" /\ r.op = "init" -> SendMe(r, ts, TRUE)
    [] r.pc = "refresh" /\ r.op # "init" -> [Done(r, "ok") EXCEPT !.got = acc]
    [] r.pc = "meRefresh" -> SendMe(r, ts, FALSE)
    [] r.pc = "apiRefresh" -> SendApi(r, ts)

\* The awaited refresh rejected (or refreshToken() threw at the call).
ResumeFail(r) ==
  CASE r.pc = "refresh" /\ r.op = "init" -> Done(r, "refresh_failed")
    [] r.pc = "refresh" /\ r.op # "init" -> Done(r, "RefreshFailed")
    [] r.pc = "meRefresh" -> MeFailed(r, "UnauthorizedAndRefreshFailed")
    [] r.pc = "apiRefresh" -> Done(r, "RefreshFailed")

\* r calls refreshToken() from position waitPc: it either awaits a promise or
\* fails at once.
CallRefresh(r, waitPc, kind) ==
  LET c == [r EXCEPT !.pc = waitPc, !.refreshes = @ + 1,
                     !.wait = AwaitedProm(kind)]
  IN IF kind \in {"start", "join"} THEN c ELSE ResumeFail(c)

\* Results with which an operation, as it finishes, clears the token store
\* (handleCallback's clearTokens) or logs out (initialize's authService.logout).
ClearingResultsCallbackKeeps == {"init_failed", "refresh_failed"}

ClearingResults == {"PostExchangeValidationFailed", "init_failed", "refresh_failed"}

LogoutResults == {"init_failed", "refresh_failed"}

Finishes(old, new) == old.pc # "done" /\ new.pc = "done"

\* The storage after the tasks move from tasks to nt, given the token store ts
\* written earlier in the same step.
StorageAfter(nt, ts) ==
  LET fin == {t \in Tasks : Finishes(tasks[t], nt[t])}
      \* useAuthActions.refreshToken's catch calls store.logout()
      loggedOut == {t \in fin : nt[t].op = "storeRefresh" /\ nt[t].result # "ok"}
      clears == \E t \in fin : nt[t].result \in ClearingResults \/ t \in loggedOut
      out == \E t \in fin : nt[t].result \in LogoutResults \/ t \in loggedOut
  IN /\ tokenStore' = IF clears THEN NoTokens ELSE ts
     /\ oauthState' = IF out THEN NoState ELSE oauthState
     /\ pkceVerifier' = IF out THEN 0 ELSE pkceVerifier
     /\ authUser' = IF out THEN FALSE ELSE authUser


\* The auth store after the tasks move from tasks to nt; acc and rt are the
\* tokens a resolved refresh returned (initialize's setTokens(newTokens)).
\* The operations that are actions of useAuthActions.
StoreOps == {"storeCallback", "storeProfile", "storeRefresh"}

\* What the move of one caller from old to new does to auth store s when the
\* caller runs an action of useAuthActions: handleCallback (setTokens with the
\* returned tokens, then getCurrentUser and setUser; catch: setError; finally:
\* setLoading(false)) or refreshToken (setTokens; catch: setError, then
\* store.logout()).
StoreStep(s, old, new, newTokens) ==
  LET s1 == IF old.op = "storeCallback" /\ new.op = "storeProfile"
            THEN setTokens(s, new.ret) ELSE s
      fin == Finishes(old, new)
  IN CASE fin /\ new.op = "storeProfile" /\ new.result = "ok" ->
            setLoading(setUser(s1, TRUE), FALSE)
       [] fin /\ new.op \in {"storeCallback", "storeProfile"} /\ new.result # "ok" ->
            setLoading(setError(s1, new.result), FALSE)
       [] fin /\ new.op = "storeRefresh" /\ new.result = "ok" ->
            setTokens(s1, newTokens)
       [] fin /\ new.op = "storeRefresh" /\ new.result # "ok" ->
            storeLogout(setError(s1, new.result))
       [] OTHER -> s1

\* The continuations of one settled promise, in the order of the caller slots.
RECURSIVE StoreSteps(_, _, _, _)
StoreSteps(s, nt, newTokens, t) ==
  IF t > MaxCallers THEN s
  ELSE StoreSteps(StoreStep(s, tasks[t], nt[t], newTokens), nt, newTokens, t + 1)

StoreAfter(nt, newTokens) ==
  LET fin == {t \in Tasks : Finishes(tasks[t], nt[t]) /\ nt[t].op = "init"}
      s1 == IF \E t \in Tasks : /\ tasks[t].op = "init" /\ tasks[t].pc = "refresh"
                                /\ nt[t].pc = "me"
            THEN setTokens(store, newTokens) ELSE store
      s2 == IF \E t \in fin : nt[t].result = "ok"
            THEN setUser(s1, TRUE) ELSE s1
      s3 == IF \E t \in fin : nt[t].result = "init_failed"
            THEN setError(s2, "init_failed") ELSE s2
      s4 == IF fin # {} THEN setLoading(s3, FALSE) ELSE s3
  IN IF \E t \in Tasks : nt[t].op \in StoreOps
     THEN StoreSteps(s4, nt, newTokens, 1) ELSE s4

(* ------------------------------- actions ------------------------------- *)

Startable(t) == tasks[t].pc \in {"idle", "done"}

NewTask(o) == [IdleTask EXCEPT !.op = o]

HTTP_STATUS == {200, 401, 500}

\* localStorage and sessionStorage as one record.
StorageNow ==
  [tokens |-> tokenStore, state |-> oauthState, verifier |-> pkceVerifier,
   user |-> authUser]

\* What AuthService.logout() leaves of storage s: clearTokens(), both
\* sessionStorage items removed, 'auth_user' removed.
logoutStorageTokensOnly(s) == [s EXCEPT !.tokens = NoTokens]

logoutStorageInTwoCalls(s) ==
  IF s.tokens.present THEN [s EXCEPT !.tokens = NoTokens]
  ELSE [tokens |-> NoTokens, state |-> NoState, verifier |-> 0, user |-> FALSE]

logoutStorage(s) ==
  [tokens |-> NoTokens, state |-> NoState, verifier |-> 0, user |-> FALSE]

\* AuthService.logout(): synchronous, callable at any time.
Logout ==
  /\ tokenStore' = logoutStorage(StorageNow).tokens
  /\ oauthState' = logoutStorage(StorageNow).state
  /\ pkceVerifier' = logoutStorage(StorageNow).verifier
  /\ authUser' = logoutStorage(StorageNow).user
  /\ UNCHANGED <<msw, clientId, now, refreshInFlight, proms, tasks, store,
                 exchangesSinceLogin>>

\* A caller invokes useAuthStore.logout(): authService.logout(), then the
\* store is reset.  It returns nothing and throws nothing.
StoreLogout(t) ==
  /\ Startable(t)
  /\ tokenStore' = logoutStorage(StorageNow).tokens
  /\ oauthState' = logoutStorage(StorageNow).state
  /\ pkceVerifier' = logoutStorage(StorageNow).verifier
  /\ authUser' = logoutStorage(StorageNow).user
  /\ store' = storeLogout(store)
  /\ tasks' = [tasks EXCEPT ![t] = Done(NewTask("logout"), "ok")]
  /\ UNCHANGED <<msw, clientId, now, refreshInFlight, proms, exchangesSinceLogin>>

\* A caller invokes authService.refreshToken().
StartRefresh(t) ==
  /\ Startable(t)
  /\ LET kind == RefreshCallKind
         nt == [tasks EXCEPT ![t] = CallRefresh(NewTask("refresh"), "refresh", kind)]
     IN /\ tasks' = nt
        /\ refreshInFlight' = HolderAfterCall(kind)
        /\ proms' = PromsAfterCall(kind)
        /\ tokenStore' = TokensAfterCall(kind)
  /\ UNCHANGED <<msw, clientId, now, authUser, oauthState, pkceVerifier, store,
                 exchangesSinceLogin>>

\* A caller invokes useAuthActions.refreshToken(): authService.refreshToken(),
\* then setTokens; when the call fails at once the catch runs at once:
\* setError, then store.logout().
StartStoreRefresh(t) ==
  /\ Startable(t)
  /\ LET kind == RefreshCallKind
         new == CallRefresh(NewTask("storeRefresh"), "refresh", kind)
         failed == new.pc = "done"
         after == IF failed THEN logoutStorage(StorageNow)
                  ELSE [StorageNow EXCEPT !.tokens = TokensAfterCall(kind)]
     IN /\ tasks' = [tasks EXCEPT ![t] = new]
        /\ refreshInFlight' = HolderAfterCall(kind)
        /\ proms' = PromsAfterCall(kind)
        /\ tokenStore' = after.tokens
        /\ oauthState' = after.state
        /\ pkceVerifier' = after.verifier
        /\ authUser' = after.user
        /\ store' = StoreStep(store, NewTask("storeRefresh"), new, NoTokens)
  /\ UNCHANGED <<msw, clientId, now, exchangesSinceLogin>>

\* refresh_token: data.refreshToken || data.refresh_token || currentTokens.refresh_token
RotatedRefreshTokenDropsPrior(responseRt, startedRt) == responseRt

RotatedRefreshToken(responseRt, startedRt) ==
  IF responseRt # 0 THEN responseRt ELSE startedRt

\* The refresh endpoint answers the request of promise p (ok: a token payload
\* with access token a, refresh token rt or none, expires_in e; otherwise an
\* error status or a network failure); the IIFE finishes and every caller
\* awaiting p continues.
RefreshSettle(p, ok, a, rt, e) ==
  /\ proms[p].st = "pending"
  /\ LET newTokens == StoredRecord(a, RotatedRefreshToken(rt, proms[p].rt), e, now)
         ts == IF ok THEN newTokens ELSE tokenStore
         nt == [t \in Tasks |->
                  IF tasks[t].wait = p
                  THEN (IF ok THEN ResumeOk(tasks[t], ts, a) ELSE ResumeFail(tasks[t]))
                  ELSE tasks[t]]
     IN /\ tasks' = nt
        /\ StorageAfter(nt, ts)
        /\ store' = StoreAfter(nt, [newTokens EXCEPT !.expires_at = 0])
        /\ refreshInFlight' = IF ok THEN 0 ELSE refreshInFlight
        /\ proms' = [proms EXCEPT ![p] =
                       IF ~ok /\ refreshInFlight = p
                       THEN [st |-> "rejected", rt |-> 0] ELSE FreeProm]
  /\ UNCHANGED <<msw, clientId, now, exchangesSinceLogin>>

RefreshResponseWith(expiresIns) ==
  \E p \in PromIds :
    \/ \E a \in AccessTokens, rt \in RefreshTokens \cup {0}, e \in expiresIns :
         RefreshSettle(p, TRUE, a, rt, e)
    \/ RefreshSettle(p, FALSE, 0, 0, 0)

RefreshResponse == RefreshResponseWith({0})

\* A caller invokes authService.getCurrentUser().
StartMe(t) ==
  /\ Startable(t)
  /\ tasks' = [tasks EXCEPT ![t] = SendMe(NewTask("me"), tokenStore, TRUE)]
  /\ UNCHANGED <<msw, clientId, now, tokenStore, authUser, oauthState, pkceVerifier,
                 refreshInFlight, proms, store, exchangesSinceLogin>>

\* The profile endpoint answers a task's fetch with the given status.
MeResponse(t, status) ==
  /\ tasks[t].pc \in {"me", "meRetry"}
  /\ LET r == tasks[t]
         kind == IF status = 401 /\ r.pc = "me" THEN RefreshCallKind ELSE "none"
         new == IF status = 200 THEN MeOk(r)
                ELSE IF status = 401
                THEN (IF r.pc = "me" THEN CallRefresh(r, "meRefresh", kind)
                      ELSE MeFailed(r, "Unauthorized"))
                ELSE MeFailed(r, "ProfileFailed")
         nt == [tasks EXCEPT ![t] = new]
     IN /\ tasks' = nt
        /\ refreshInFlight' = HolderAfterCall(kind)
        /\ proms' = PromsAfterCall(kind)
        /\ StorageAfter(nt, TokensAfterCall(kind))
        /\ store' = StoreAfter(nt, NoTokens)
  /\ UNCHANGED <<msw, clientId, now, exchangesSinceLogin>>

\* A caller invokes authService.spotifyApiRequest(endpoint).
StartApi(t) ==
  /\ Startable(t)
  /\ tasks' = [tasks EXCEPT ![t] = SendApi(NewTask("api"), tokenStore)]
  /\ UNCHANGED <<msw, clientId, now, tokenStore, authUser, oauthState, pkceVerifier,
                 refreshInFlight, proms, store, exchangesSinceLogin>>

\* The API answers a task's request with the given status.
ApiResponse(t, status) ==
  /\ tasks[t].pc = "api"
  /\ status = 401 => tasks[t].sends < MaxApiSends
  /\ LET r == tasks[t]
         kind == IF status = 401 THEN RefreshCallKind ELSE "none"
         new == IF status = 200 THEN Done(r, "ok")
                ELSE IF status = 401 THEN CallRefresh(r, "apiRefresh", kind)
                ELSE Done(r, "ApiFailed")
     IN /\ tasks' = [tasks EXCEPT ![t] = new]
        /\ refreshInFlight' = HolderAfterCall(kind)
        /\ proms' = PromsAfterCall(kind)
        /\ tokenStore' = TokensAfterCall(kind)
  /\ UNCHANGED <<msw, clientId, now, authUser, oauthState, pkceVerifier, store,
                 exchangesSinceLogin>>


\* A caller invokes authService.initiateSpotifyLogin(): the mock flow awaits
\* the SHA-256 digest of generateCodeChallenge, the real flow awaits the
\* backend's login endpoint.
StartLogin(t) ==
  /\ Startable(t)
  /\ tasks' = [tasks EXCEPT ![t] =
                 [NewTask("login") EXCEPT !.pc = IF msw THEN "hash" ELSE "login"]]
  /\ UNCHANGED <<msw, clientId, now, tokenStore, authUser, oauthState, pkceVerifier,
                 refreshInFlight, proms, store, exchangesSinceLogin>>

\* mockSpotifyLogin after the digest: generateState(), then both values are stored.
HashDone(t, v, s) ==
  /\ tasks[t].pc = "hash"
  /\ pkceVerifier' = v
  /\ oauthState' = s
  /\ exchangesSinceLogin' = 0
  /\ tasks' = [tasks EXCEPT ![t] = [Done(@, "ok") EXCEPT !.st = s]]
  /\ UNCHANGED <<msw, clientId, now, tokenStore, authUser, refreshInFlight, proms, store>>

\* The login endpoint answers: an error (or a network failure), or
\* { authorizationUrl, codeVerifier?, state? }, each stored only if present.
LoginResponse(t, ok, v, s) ==
  /\ tasks[t].pc = "login"
  /\ IF ok
     THEN /\ pkceVerifier' = IF v # 0 THEN v ELSE pkceVerifier
          /\ oauthState' = IF s # NoState THEN s ELSE oauthState
          /\ exchangesSinceLogin' = IF s # NoState THEN 0 ELSE exchangesSinceLogin
          /\ tasks' = [tasks EXCEPT ![t] = [Done(@, "ok") EXCEPT !.st = s]]
     ELSE /\ tasks' = [tasks EXCEPT ![t] = Done(@, "LoginFailed")]
          /\ UNCHANGED <<pkceVerifier, oauthState, exchangesSinceLogin>>
  /\ UNCHANGED <<msw, clientId, now, tokenStore, authUser, refreshInFlight, proms, store>>

\* retrieveOAuthState / retrievePKCEVerifier: the value read, removed if present.
AfterRetrieveKeeps(value, absent) == value

AfterRetrieve(value, absent) == absent

\* The ephemeral-storage functions of utils/oauth.ts, called on their own;
\* a caller's record keeps what the call returned (got, st).
StorePKCEVerifier(t, v) ==
  /\ Startable(t)
  /\ pkceVerifier' = v
  /\ tasks' = [tasks EXCEPT ![t] = Done(NewTask("storePKCEVerifier"), "ok")]
  /\ UNCHANGED <<msw, clientId, now, tokenStore, authUser, oauthState, refreshInFlight,
                 proms, store, exchangesSinceLogin>>

RetrievePKCEVerifier(t) ==
  /\ Startable(t)
  /\ pkceVerifier' = AfterRetrieve(pkceVerifier, 0)
  /\ tasks' = [tasks EXCEPT ![t] =
                 [Done(NewTask("retrievePKCEVerifier"), "ok") EXCEPT
                    !.got = pkceVerifier]]
  /\ UNCHANGED <<msw, clientId, now, tokenStore, authUser, oauthState, refreshInFlight,
                 proms, store, exchangesSinceLogin>>

StoreOAuthState(t, s) ==
  /\ Startable(t)
  /\ oauthState' = s
  /\ exchangesSinceLogin' = 0
  /\ tasks' = [tasks EXCEPT ![t] = Done(NewTask("storeOAuthState"), "ok")]
  /\ UNCHANGED <<msw, clientId, now, tokenStore, authUser, pkceVerifier, refreshInFlight,
                 proms, store>>

RetrieveOAuthState(t) ==
  /\ Startable(t)
  /\ oauthState' = AfterRetrieve(oauthState, NoState)
  /\ tasks' = [tasks EXCEPT ![t] =
                 [Done(NewTask("retrieveOAuthState"), "ok") EXCEPT
                    !.st = oauthState]]
  /\ UNCHANGED <<msw, clientId, now, tokenStore, authUser, pkceVerifier, refreshInFlight,
                 proms, store, exchangesSinceLogin>>

\* validateState(receivedState, expectedState) called on its own, the
\* expected state being the one in storage (read, not removed).
ValidateState(t, receivedState) ==
  /\ Startable(t)
  /\ tasks' = [tasks EXCEPT ![t] =
                 [Done(NewTask("validateState"),
                       IF validateState(receivedState, oauthState)
                       THEN "true" ELSE "false")
                  EXCEPT !.st = receivedState,
                         !.comparisons =
                           validateStateComparisons(receivedState, oauthState)]]
  /\ UNCHANGED <<msw, clientId, now, tokenStore, authUser, oauthState, pkceVerifier,
                 refreshInFlight, proms, store, exchangesSinceLogin>>

StateCheckPasses(received, storedState) ==
  storedState # NoState /\ validateState(received, storedState)

\* 'mock_access_token_' + Date.now() and 'mock_refresh_token_' + Date.now():
\* one token string per clock value.
MockToken(t) == 1 + ((t \div 1000) % 2)

\* The synchronous part of authService.handleCallback(code, received) for the
\* caller record r0, and what it does to the auth store s0 the caller has set.
CallbackCall(t, received, r0, s0) ==
  LET storedState == oauthState
      r == [r0 EXCEPT !.st = received]
      passes == StateCheckPasses(received, storedState)
      mockTokens == StoredRecord(MockToken(now), MockToken(now), DEFAULT_EXPIRES_IN, now)
      returned == IF r.op = "storeCallback"
                  THEN [mockTokens EXCEPT !.expires_at = 0] ELSE NoTokens
      new == IF ~passes THEN Done(r, "CsrfMismatch")
             ELSE IF msw
             THEN CallbackOk([r EXCEPT !.got = MockToken(now), !.ret = returned],
                             mockTokens)
             ELSE [r EXCEPT !.pc = "exch"]
  IN /\ oauthState' = AfterRetrieve(oauthState, NoState)
     /\ tasks' = [tasks EXCEPT ![t] = new]
     /\ tokenStore' = IF passes /\ msw THEN mockTokens ELSE tokenStore
     /\ pkceVerifier' = IF passes /\ ~msw
                        THEN AfterRetrieve(pkceVerifier, 0) ELSE pkceVerifier
     /\ exchangesSinceLogin' =
          IF passes /\ ~msw
          THEN (IF exchangesSinceLogin < 2 THEN exchangesSinceLogin + 1 ELSE 2)
          ELSE exchangesSinceLogin
     /\ store' = IF r0.op \in StoreOps THEN StoreStep(s0, r0, new, NoTokens) ELSE s0

\* A caller invokes authService.handleCallback(code, received).
StartCallback(t, received) ==
  /\ Startable(t)
  /\ CallbackCall(t, received, NewTask("callback"), store)
  /\ UNCHANGED <<msw, clientId, now, authUser, refreshInFlight, proms>>

\* CallbackPage.processCallback: an OAuth error in the URL, a missing code or
\* a missing state set the status to 'error'.  Otherwise the page calls
\* useAuth().handleCallback, which is callbackMutation.mutate: it starts
\* useAuthActions.handleCallback (setLoading(true), clearError, then
\* authService.handleCallback), returns undefined and never throws, so the
\* awaiting page sets the status to 'success' before any response arrives.
ProcessCallback(t, oauthError, code, received) ==
  /\ Startable(t)
  /\ IF oauthError \/ ~code \/ received = NoState
     THEN /\ tasks' = [tasks EXCEPT ![t] =
                         [Done(NewTask("page"), "none") EXCEPT !.page = "error"]]
          /\ UNCHANGED <<tokenStore, oauthState, pkceVerifier, store,
                         exchangesSinceLogin>>
     ELSE CallbackCall(t, received,
                       [NewTask("storeCallback") EXCEPT !.page = "success"],
                       clearError(setLoading(store, TRUE)))
  /\ UNCHANGED <<msw, clientId, now, authUser, refreshInFlight, proms>>

\* The token-exchange endpoint answers: an error, or a token payload (with
\* data.user or without); the tokens are stored and getCurrentUser() is called.
ExchangeResponse(t, ok, a, rt, e, user) ==
  /\ tasks[t].pc = "exch"
  /\ LET ts == IF ok THEN StoredRecord(a, rt, e, now) ELSE tokenStore
         returned == IF tasks[t].op = "storeCallback"
                     THEN [ts EXCEPT !.expires_at = 0] ELSE NoTokens
         new == IF ok THEN SendMe([tasks[t] EXCEPT !.got = a, !.ret = returned], ts, TRUE)
                ELSE Done(tasks[t], "ExchangeFailed")
         nt == [tasks EXCEPT ![t] = new]
     IN /\ tasks' = nt
        /\ store' = IF tasks[t].op \in StoreOps THEN StoreAfter(nt, NoTokens) ELSE store
        /\ tokenStore' = IF Finishes(tasks[t], new) /\ new.result \in ClearingResults
                         THEN NoTokens ELSE ts
        /\ authUser' = IF ok /\ user THEN TRUE ELSE authUser
  /\ UNCHANGED <<msw, clientId, now, oauthState, pkceVerifier, refreshInFlight, proms,
                 exchangesSinceLogin>>

\* Statuses with which the token-exchange endpoint rejects a code.
EXCHANGE_ERROR_STATUS == {400, 502}

\* The message of the Error handleCallback throws for a non-ok exchange
\* response: err.message || `Token exchange failed: ${response.status}`.
ExchangeError(status, hasMessage) ==
  IF hasMessage THEN "BackendMessage"
  ELSE IF status = 400 THEN "TokenExchangeFailed400"
  ELSE "TokenExchangeFailed502"

\* The token-exchange endpoint answers with an error status; the JSON body
\* carries a message field or not.
ExchangeRejected(t, status, hasMessage) ==
  /\ tasks[t].pc = "exch"
  /\ LET nt == [tasks EXCEPT ![t] = Done(@, ExchangeError(status, hasMessage))]
     IN /\ tasks' = nt
        /\ store' = IF tasks[t].op \in StoreOps THEN StoreAfter(nt, NoTokens) ELSE store
  /\ UNCHANGED <<msw, clientId, now, tokenStore, authUser, oauthState, pkceVerifier,
                 refreshInFlight, proms, exchangesSinceLogin>>

\* useAuthStore.initialize(): reads the stored tokens, refreshes them if the
\* expiry check says so, then fetches the profile.
StartInit(t) ==
  /\ Startable(t)
  /\ LET s1 == setError(setLoading(store, TRUE), "")
         expired == isTokenExpired(tokenStore, now)
         kind == IF tokenStore.present /\ expired THEN RefreshCallKind ELSE "none"
         new == IF ~tokenStore.present THEN Done(NewTask("init"), "no_tokens")
                ELSE IF expired THEN CallRefresh(NewTask("init"), "refresh", kind)
                ELSE SendMe(NewTask("init"), tokenStore, TRUE)
         out == new.pc = "done" /\ new.result \in LogoutResults
     IN /\ tasks' = [tasks EXCEPT ![t] = new]
        /\ refreshInFlight' = HolderAfterCall(kind)
        /\ proms' = PromsAfterCall(kind)
        /\ tokenStore' = IF out THEN NoTokens ELSE TokensAfterCall(kind)
        /\ oauthState' = IF out THEN NoState ELSE oauthState
        /\ pkceVerifier' = IF out THEN 0 ELSE pkceVerifier
        /\ authUser' = IF out THEN FALSE ELSE authUser
        /\ store' = IF new.pc = "done"
                    THEN setLoading(IF new.result = "init_failed"
                                    THEN setError(s1, "init_failed") ELSE s1, FALSE)
                    ELSE IF tokenStore.present /\ ~expired
                    THEN setTokens(s1, tokenStore)
                    ELSE s1
  /\ UNCHANGED <<msw, clientId, now, exchangesSinceLogin>>

\* Time passes.
\* One tick takes a default-lifetime token stored at the tick before exactly
\* to the start of its refresh buffer.
TickMs == DEFAULT_EXPIRES_IN * 1000 - REFRESH_BUFFER_MS

Tick ==
  /\ now < MaxTicks * TickMs
  /\ now' = now + TickMs
  /\ UNCHANGED <<msw, clientId, tokenStore, authUser, oauthState, pkceVerifier,
                 refreshInFlight, proms, tasks, store, exchangesSinceLogin>>


(* ---------------------------- specification ---------------------------- *)

\* The constructor only warns when the client id is missing; the redirect URI
\* always has a value (the configured one or origin + '/callback').
InitConfigured(clientIds, mswModes, storedTokens) ==
  /\ msw \in mswModes
  /\ clientId \in clientIds
  /\ now = 0
  /\ tokenStore \in storedTokens
  /\ authUser = FALSE
  /\ oauthState = NoState
  /\ pkceVerifier = 0
  /\ refreshInFlight = 0
  /\ proms = [p \in PromIds |-> FreeProm]
  /\ tasks = [t \in Tasks |-> IdleTask]
  /\ store = InitialStore
  /\ exchangesSinceLogin = 0

InitWith(mswModes, storedTokens) == InitConfigured({TRUE}, mswModes, storedTokens)

\* The AuthService with two concurrent callers, the real (backend) flow, and
\* one login state string in play.
MainTasks == {1, 2}
MainStates == {<<1, 2>>}
MainReceived == {<<1, 2>>, <<1, 1>>, <<1>>}
MainVerifiers == {1}
MainExpiresIns == {0}
\* The exchange answers without data.user here; the session specification
\* below has both answers.
MainUsers == {FALSE}

Init == InitWith({FALSE}, {NoTokens})

Next ==
  \/ Logout
  \/ RefreshResponse
  \/ \E t \in MainTasks : StartRefresh(t)
  \/ \E t \in MainTasks : StartMe(t)
  \/ \E t \in MainTasks, status \in HTTP_STATUS : MeResponse(t, status)
  \/ \E t \in MainTasks : StartApi(t)
  \/ \E t \in MainTasks, status \in HTTP_STATUS : ApiResponse(t, status)
  \/ \E t \in MainTasks : StartLogin(t)
  \/ \E t \in MainTasks, v \in MainVerifiers \cup {0}, s \in MainStates \cup {NoState} :
       LoginResponse(t, TRUE, v, s)
  \/ \E t \in MainTasks : LoginResponse(t, FALSE, 0, NoState)
  \/ \E t \in MainTasks, s \in MainReceived : StartCallback(t, s)
  \/ \E t \in MainTasks, a \in AccessTokens, rt \in RefreshTokens,
        e \in MainExpiresIns, user \in MainUsers :
       ExchangeResponse(t, TRUE, a, rt, e, user)
  \/ \E t \in MainTasks : ExchangeResponse(t, FALSE, 0, 0, 0, FALSE)
  \/ \E t \in MainTasks, status \in EXCHANGE_ERROR_STATUS, hasMessage \in BOOLEAN :
       ExchangeRejected(t, status, hasMessage)

Spec == Init /\ [][Next]_vars

\* Single-flight refresh on its own: every caller slot calls refreshToken(),
\* starting from a token store an earlier session may have left.
SeededTokens ==
  {NoTokens} \cup
  {StoredRecord(a, rt, 0, 0) : a \in AccessTokens, rt \in RefreshTokens}

InitRefresh == InitWith({FALSE}, SeededTokens)

NextRefresh ==
  \/ Logout
  \/ RefreshResponse
  \/ \E t \in Tasks : StartRefresh(t)

SpecRefresh == InitRefresh /\ [][NextRefresh]_vars

\* Token expiry: one caller, a clock, tokens left by an earlier session or
\* written by a refresh, and initialize() at any time.
SeededExpiryTokens ==
  {NoTokens} \cup
  {StoredRecord(a, 1, e, 0) : a \in AccessTokens, e \in ExpiresIns}

InitExpiry == InitWith({FALSE}, SeededExpiryTokens)

NextExpiry ==
  \/ Tick
  \/ StartInit(1)
  \/ RefreshResponseWith(ExpiresIns)
  \/ \E status \in HTTP_STATUS : MeResponse(1, status)

SpecExpiry == InitExpiry /\ [][NextExpiry]_vars

\* Development mode (VITE_ENABLE_MSW): initiateSpotifyLogin and handleCallback
\* take their mock branches, and the profile comes from the auth endpoint.
InitMock == InitWith({TRUE}, {NoTokens})

NextMock ==
  \/ Logout
  \/ \E t \in MainTasks : StartLogin(t)
  \/ \E t \in MainTasks, v \in Verifiers, s \in LoginStates : HashDone(t, v, s)
  \/ \E t \in MainTasks, s \in ReceivedStates : StartCallback(t, s)
  \/ \E t \in MainTasks : StartMe(t)
  \/ \E t \in MainTasks, status \in HTTP_STATUS : MeResponse(t, status)
  \/ \E t \in MainTasks : StartRefresh(t)
  \/ RefreshResponse

SpecMock == InitMock /\ [][NextMock]_vars

\* One caller going through whole sessions, one call after the other, while
\* time passes, in either mode.
InitSession == InitWith({TRUE, FALSE}, {NoTokens})

NextSession ==
  \/ Tick
  \/ StartLogin(1)
  \/ \E v \in Verifiers, s \in LoginStates : HashDone(1, v, s)
  \/ \E v \in Verifiers \cup {0}, s \in LoginStates \cup {NoState} :
       LoginResponse(1, TRUE, v, s)
  \/ LoginResponse(1, FALSE, 0, NoState)
  \/ \E s \in ReceivedStates : StartCallback(1, s)
  \/ \E a \in AccessTokens, rt \in RefreshTokens, e \in ExpiresIns, user \in BOOLEAN :
       ExchangeResponse(1, TRUE, a, rt, e, user)
  \/ ExchangeResponse(1, FALSE, 0, 0, 0, FALSE)
  \/ \E status \in EXCHANGE_ERROR_STATUS, hasMessage \in BOOLEAN :
       ExchangeRejected(1, status, hasMessage)
  \/ StartMe(1)
  \/ \E status \in HTTP_STATUS : MeResponse(1, status)
  \/ StartApi(1)
  \/ \E status \in HTTP_STATUS : ApiResponse(1, status)
  \/ StartRefresh(1)
  \/ RefreshResponseWith(ExpiresIns)
  \/ StoreLogout(1)

SpecSession == InitSession /\ [][NextSession]_vars

\* The ephemeral OAuth storage on its own: callers store and retrieve the
\* verifier and the state in any order.
NextEphemeral ==
  \/ \E t \in Tasks, v \in Verifiers : StorePKCEVerifier(t, v)
  \/ \E t \in Tasks : RetrievePKCEVerifier(t)
  \/ \E t \in Tasks, s \in LoginStates : StoreOAuthState(t, s)
  \/ \E t \in Tasks : RetrieveOAuthState(t)

SpecEphemeral == Init /\ [][NextEphemeral]_vars

\* validateState on its own: any expected string in storage, any received
\* string given to the function.
InitValidate ==
  /\ msw = FALSE
  /\ clientId = TRUE
  /\ now = 0
  /\ tokenStore = NoTokens
  /\ authUser = FALSE
  /\ oauthState \in StateStrings
  /\ pkceVerifier = 0
  /\ refreshInFlight = 0
  /\ proms = [p \in PromIds |-> FreeProm]
  /\ tasks = [t \in Tasks |-> IdleTask]
  /\ store = InitialStore
  /\ exchangesSinceLogin = 0

NextValidate == \E receivedState \in StateStrings : ValidateState(1, receivedState)

SpecValidate == InitValidate /\ [][NextValidate]_vars

\* Login initiation on its own, with the client id configured or not, in the
\* mock flow (state from generateState) and the backend flow (state from the
\* login endpoint's answer).
InitLogin == InitConfigured({TRUE, FALSE}, {TRUE, FALSE}, {NoTokens})

NextLogin ==
  \/ StartLogin(1)
  \/ \E v \in Verifiers, randomArray \in RandomArrays :
       HashDone(1, v, generateState(randomArray))
  \/ \E v \in Verifiers \cup {0}, s \in BackendStates : LoginResponse(1, TRUE, v, s)
  \/ LoginResponse(1, FALSE, 0, NoState)

SpecLogin == InitLogin /\ [][NextLogin]_vars

\* Refresh without a refresh token: as the refresh specification, and the
\* earlier session may also have left a record with an access token only (an
\* exchange answered without refreshToken).
InitAccessOnly ==
  InitWith({FALSE}, SeededTokens \cup {StoredRecord(a, 0, 0, 0) : a \in AccessTokens})

SpecAccessOnly == InitAccessOnly /\ [][NextRefresh]_vars

\* A refresh storm: tokens left by an earlier login, callers sending wrapped
\* API requests, and a refresh endpoint that issues a new access token.  The
\* stored access token changes only through a refresh that a 401 started.
InitStorm == InitWith({FALSE}, {StoredRecord(1, 1, DEFAULT_EXPIRES_IN, 0)})

NextStorm ==
  \/ \E t \in Tasks : StartApi(t)
  \/ \E t \in Tasks, status \in HTTP_STATUS : ApiResponse(t, status)
  \/ \E p \in PromIds : RefreshSettle(p, TRUE, 2, 0, 0)
  \/ \E p \in PromIds : RefreshSettle(p, FALSE, 0, 0, 0)

SpecStorm == InitStorm /\ [][NextStorm]_vars

\* Logout racing a refresh: tokens left by an earlier login, callers that
\* refresh, and one caller slot that only ever logs out.  No callback runs,
\* so nothing is entitled to write tokens once that caller has logged out.
LogoutCaller == MaxCallers

NextLogoutRace ==
  \/ \E t \in Tasks \ {LogoutCaller} : StartRefresh(t)
  \/ RefreshResponse
  \/ StoreLogout(LogoutCaller)

SpecLogoutRace == InitRefresh /\ [][NextLogoutRace]_vars

\* The callback page: one browser tab logs in and lands on the callback page,
\* in the mock flow or the backend flow.
InitPage == InitWith({TRUE, FALSE}, {NoTokens})

NextPage ==
  \/ StartLogin(1)
  \/ \E v \in MainVerifiers, s \in MainStates : HashDone(1, v, s)
  \/ \E v \in MainVerifiers \cup {0}, s \in MainStates \cup {NoState} :
       LoginResponse(1, TRUE, v, s)
  \/ LoginResponse(1, FALSE, 0, NoState)
  \/ \E oauthError \in BOOLEAN, code \in BOOLEAN, s \in MainReceived \cup {NoState} :
       ProcessCallback(1, oauthError, code, s)
  \/ \E a \in AccessTokens, rt \in RefreshTokens, e \in ExpiresIns, user \in BOOLEAN :
       ExchangeResponse(1, TRUE, a, rt, e, user)
  \/ \E status \in EXCHANGE_ERROR_STATUS, hasMessage \in BOOLEAN :
       ExchangeRejected(1, status, hasMessage)
  \/ \E status \in HTTP_STATUS : MeResponse(1, status)
  \/ RefreshResponse

SpecPage == InitPage /\ [][NextPage]_vars

\* The refreshToken action of useAuthActions: tokens left by an earlier login,
\* two callers of the action, and logout at any time.
NextStoreRefresh ==
  \/ \E t \in MainTasks : StartStoreRefresh(t)
  \/ RefreshResponse
  \/ Logout

SpecStoreRefresh == InitRefresh /\ [][NextStoreRefresh]_vars

(* ------------------------------- claims -------------------------------- *)

PendingProms == {p \in PromIds : proms[p].st = "pending"}

AwaitingRefresh(r) == r.pc = "refresh" /\ r.wait # 0

\* A step in which caller t invokes an operation (its record is started anew).
Starts(t, o) ==
  /\ tasks[t].pc \in {"idle", "done"}
  /\ tasks'[t].op = o
  /\ tasks'[t] # tasks[t]

\* C1. Single-flight refresh: a refresh() call issued while an earlier one is
\* still pending, with a refresh token stored, awaits the pending promise and
\* sends no request of its own (at most one request to the refresh endpoint
\* is ever in flight), and all callers awaiting a refresh settle together with
\* the same result and the same token set.
C1_SingleFlightRefresh ==
  [][ /\ Cardinality(PendingProms') <= 1
      /\ \A t \in Tasks, u \in Tasks :
           /\ t # u
           /\ Starts(t, "refresh")
           /\ AwaitingRefresh(tasks[u])
           /\ tokenStore.refresh_token # 0
           => /\ proms' = proms
              /\ tasks'[t].pc = "refresh"
              /\ tasks'[t].wait = tasks[u].wait
      /\ \A t \in Tasks, u \in Tasks :
           /\ AwaitingRefresh(tasks[t])
           /\ AwaitingRefresh(tasks[u])
           /\ tasks'[t].pc = "done"
           => /\ tasks'[u].pc = "done"
              /\ tasks'[u].result = tasks'[t].result
              /\ tasks'[u].got = tasks'[t].got ]_vars

\* Every caller slot awaits the one pending refresh exchange.
C1_Witness ==
  /\ Cardinality(PendingProms) = 1
  /\ \A t \in Tasks : AwaitingRefresh(tasks[t]) /\ tasks[t].wait = refreshInFlight

\* C2. handleCallback(code, state) with no CSRF state stored, or with a stored
\* state other than the received one, fails with the state-mismatch error,
\* sends no token-exchange request and leaves the token store as it was.
C2_CsrfMismatchRejected ==
  [][ \A t \in Tasks :
        /\ Starts(t, "callback")
        /\ (oauthState = NoState \/ oauthState # tasks'[t].st)
        => /\ tasks'[t].pc = "done"
           /\ tasks'[t].result = "CsrfMismatch"
           /\ tokenStore' = tokenStore
           /\ exchangesSinceLogin' = exchangesSinceLogin
           /\ \A u \in Tasks : tasks'[u].pc = "exch" => tasks[u].pc = "exch" ]_vars

\* A callback carrying a state of the right length but other characters was
\* rejected while tokens were stored.
C2_Witness ==
  \E t \in Tasks :
    /\ tasks[t].op = "callback"
    /\ tasks[t].result = "CsrfMismatch"
    /\ tasks[t].st = <<1, 1>>
    /\ tokenStore.present

\* C3. A spotifyApiRequest call performs at most one refresh() and sends its
\* request at most twice.
C3_BoundedRetry ==
  \A t \in Tasks :
    tasks[t].op = "api" => tasks[t].refreshes <= 1 /\ tasks[t].sends <= 2

\* C4. getCurrentUser() performs at most one refresh() and at most two profile
\* fetches: the retry after the refresh runs with refresh disabled, and a 401
\* on it ends the call with Unauthorized, with no further refresh or fetch.
ProfileOps == {"me", "callback", "init"}

C4_ProfileFetchBounded ==
  [][ \A t \in Tasks :
        tasks'[t].op \in ProfileOps =>
          /\ tasks'[t].refreshes <= 1
          /\ tasks'[t].sends <= 2
          /\ tasks'[t].pc = "meRetry" => tasks'[t].refreshes = 1 /\ tasks'[t].sends = 2
          /\ tasks'[t].result = "Unauthorized" =>
               tasks'[t].refreshes = 1 /\ tasks'[t].sends = 2
          /\ tasks[t].pc = "meRetry" /\ tasks'[t] # tasks[t] =>
               /\ tasks'[t].pc = "done"
               /\ tasks'[t].refreshes = tasks[t].refreshes
               /\ tasks'[t].sends = tasks[t].sends
               /\ proms' = proms ]_vars

\* A profile fetch was answered 401, refreshed once, retried once, and was
\* answered 401 again.
C4_Witness ==
  \E t \in Tasks :
    /\ tasks[t].op = "me"
    /\ tasks[t].result = "Unauthorized"
    /\ tasks[t].sends = 2
    /\ tasks[t].refreshes = 1

\* C5. When refresh() fails, the token store is empty and isAuthenticated() is
\* false once it has settled.
C5_FailedRefreshClearsTokens ==
  [][ \A t \in Tasks :
        /\ tasks'[t].op = "refresh"
        /\ tasks'[t].pc = "done"
        /\ tasks'[t].result = "RefreshFailed"
        /\ tasks'[t] # tasks[t]
        => tokenStore' = NoTokens /\ ~isAuthenticated' ]_vars

\* C6. When the exchange has succeeded and the profile fetch that follows
\* fails, handleCallback fails with the token store empty; it succeeds only
\* on a profile fetch that was answered with success.
C6_ValidationFailureClearsTokens ==
  [][ \A t \in Tasks :
        /\ tasks[t].op = "callback"
        /\ tasks[t].pc \in {"me", "meRefresh", "meRetry"}
        /\ tasks'[t].pc = "done"
        => \/ /\ tasks'[t].result = "ok"
              /\ tasks[t].pc \in {"me", "meRetry"}
           \/ /\ tasks'[t].result = "PostExchangeValidationFailed"
              /\ tokenStore' = NoTokens
              /\ ~isAuthenticated' ]_vars

\* A callback whose exchange succeeded failed on a second 401 after a refresh.
C6_Witness ==
  \E t \in Tasks :
    /\ tasks[t].op = "callback"
    /\ tasks[t].result = "PostExchangeValidationFailed"
    /\ tasks[t].sends = 2
    /\ tasks[t].refreshes = 1
    /\ tokenStore = NoTokens

\* C7. When a handleCallback call settles, neither the PKCE verifier nor the
\* CSRF state is left in ephemeral storage.
C7_EphemeralClearedAfterCallback ==
  [][ \A t \in Tasks :
        /\ tasks'[t].op = "callback"
        /\ tasks'[t].pc = "done"
        /\ tasks'[t] # tasks[t]
        => oauthState' = NoState /\ pkceVerifier' = 0 ]_vars

\* C8. After one login has stored its state, at most one handleCallback sends
\* a token-exchange request; a later call finds the state cleared and fails
\* with the state-mismatch error without a request.
C8_StateConsumedOnce ==
  [][ /\ exchangesSinceLogin' <= 1
      /\ \A t \in Tasks :
           Starts(t, "callback") /\ exchangesSinceLogin >= 1
           => /\ tasks'[t].pc = "done"
              /\ tasks'[t].result = "CsrfMismatch"
              /\ exchangesSinceLogin' = exchangesSinceLogin ]_vars

\* While the exchange of one callback is in flight, a second callback with the
\* state the login returned was rejected.
C8_Witness ==
  \E t \in Tasks, u \in Tasks :
    /\ tasks[t].op = "callback" /\ tasks[t].pc = "exch"
    /\ tasks[u].op = "callback" /\ tasks[u].result = "CsrfMismatch"
    /\ tasks[u].st = tasks[t].st
    /\ exchangesSinceLogin = 1

\* C9. The expiry check is true exactly when no token record exists or
\* now >= expires_at - 300000, expires_at being the expiry stored with the tokens.
C9_ExpiryCheckUsesStoredExpiry ==
  isTokenExpired(tokenStore, now) =
    (~tokenStore.present \/ now >= tokenStore.expires_at - REFRESH_BUFFER_MS)

\* C10. initialize() triggers a refresh when the stored access token is within
\* five minutes of its absolute expiry (or past it).
C10_RefreshBeforeExpiry ==
  [][ \A t \in Tasks :
        /\ Starts(t, "init")
        /\ tokenStore.present
        /\ now >= tokenStore.expires_at - REFRESH_BUFFER_MS
        => tasks'[t].refreshes >= 1 ]_vars


\* C11. End-to-end login: handleCallback(code, S) with the state S that
\* initiateLogin() returned sends the exchange; a valid token payload is
\* stored as issued; and a successful profile answer makes the call succeed,
\* with isAuthenticated() true and the issued access token stored.
C11_LoginEndToEnd ==
  [][ /\ \A s \in LoginStates :
           /\ ~msw
           /\ tasks[1].op = "login" /\ tasks[1].result = "ok" /\ tasks[1].st = s
           /\ StartCallback(1, s)
           => tasks'[1].pc = "exch"
      /\ \A a \in {b \in AccessTokens : tasks[1].pc = "exch"}, rt \in RefreshTokens,
            e \in ExpiresIns, user \in BOOLEAN :
           ExchangeResponse(1, TRUE, a, rt, e, user)
           => /\ tasks'[1].pc = "me"
              /\ tasks'[1].got = a
              /\ tokenStore'.access_token = a
      /\ tasks[1].op = "callback" /\ tasks[1].pc = "me" /\ MeResponse(1, 200)
           => /\ tasks'[1].pc = "done"
              /\ tasks'[1].result = "ok"
              /\ isAuthenticated'
              /\ tokenStore'.access_token = tasks'[1].got ]_vars

\* A login completed: the callback succeeded on its first profile fetch and
\* the token the exchange issued is stored.
C11_Witness ==
  /\ ~msw
  /\ tasks[1].op = "callback"
  /\ tasks[1].result = "ok"
  /\ tasks[1].sends = 1
  /\ tasks[1].refreshes = 0
  /\ tasks[1].got = 2
  /\ tokenStore.access_token = 2
  /\ isAuthenticated

\* C12. A wrapped request answered 401 calls refresh() once; when that refresh
\* succeeds the request is sent once more, carrying the access token the
\* refresh stored; and a 200 answer to it ends the call with success, after
\* exactly two sends and one refresh.
C12_RetryAfterRefresh ==
  [][ \A t \in Tasks :
        /\ tasks[t].op = "api" /\ tasks[t].pc = "api" /\ tasks[t].sends = 1
           /\ ApiResponse(t, 401)
           => /\ tasks'[t].refreshes = 1
              /\ tasks'[t].sends = 1
              /\ \/ /\ tasks'[t].pc = "apiRefresh"
                    /\ Cardinality(PendingProms') = 1
                    /\ tasks'[t].wait \in PendingProms'
                 \/ /\ tasks'[t].pc = "done"
                    /\ tasks'[t].result = "RefreshFailed"
                    /\ proms' = proms
        /\ \A p \in {q \in PendingProms : tasks[t].pc = "apiRefresh" /\ tasks[t].wait = q},
              a \in AccessTokens, rt \in RefreshTokens \cup {0}, e \in ExpiresIns :
             RefreshSettle(p, TRUE, a, rt, e)
             => /\ tasks'[t].pc = "api"
                /\ tasks'[t].sends = tasks[t].sends + 1
                /\ tasks'[t].refreshes = tasks[t].refreshes
                /\ tokenStore'.access_token = a
                /\ tasks'[t].got = a
        /\ tasks[t].op = "api" /\ tasks[t].sends = 2 /\ ApiResponse(t, 200)
           => /\ tasks'[t].pc = "done"
              /\ tasks'[t].result = "ok"
              /\ tasks'[t].sends = 2
              /\ tasks'[t].refreshes = 1
              /\ proms' = proms ]_vars

\* A wrapped request succeeded on its retry, which carried the stored token.
C12_Witness ==
  \E t \in Tasks :
    /\ tasks[t].op = "api"
    /\ tasks[t].result = "ok"
    /\ tasks[t].sends = 2
    /\ tasks[t].refreshes = 1
    /\ tasks[t].got = tokenStore.access_token

\* C13. When logout() returns, the token store, the PKCE verifier, the CSRF
\* state and the cached user profile are all absent and isAuthenticated() is
\* false, whatever was stored before.
C13_LogoutClearsEverything ==
  [][ \A t \in Tasks :
        StoreLogout(t) \/ Logout
        => /\ tokenStore' = NoTokens
           /\ pkceVerifier' = 0
           /\ oauthState' = NoState
           /\ authUser' = FALSE
           /\ ~isAuthenticated' ]_vars

\* logout() was the last call of a session in which a login's state had been
\* stored and consumed by a callback; nothing is left.
C13_Witness ==
  /\ tasks[1].op = "logout"
  /\ tasks[1].result = "ok"
  /\ exchangesSinceLogin = 1
  /\ StorageNow = logoutStorage(StorageNow)
  /\ ~isAuthenticated

\* C14. logout() is idempotent: a second logout() right after a first leaves
\* exactly the state the first left (no tokens, no ephemeral OAuth values, no
\* error), and neither call fails.
StorageStates ==
  [tokens : {NoTokens, tokenStore}, state : {NoState, oauthState},
   verifier : {0, pkceVerifier}, user : {FALSE, authUser}]

C14_LogoutIdempotent ==
  [][ /\ \A s \in StorageStates : logoutStorage(logoutStorage(s)) = logoutStorage(s)
      /\ storeLogout(storeLogout(store)) = storeLogout(store)
      /\ \A t \in Tasks :
           tasks[t].op = "logout" /\ tasks[t].pc = "done" /\ StoreLogout(t)
           => UNCHANGED vars
      /\ \A t \in Tasks :
           StoreLogout(t) => tasks'[t].result = "ok" /\ store'.error = "" ]_vars

\* After a logout that ended a session, later in time: the storage and the
\* store are where a further logout() leaves them.
C14_Witness ==
  /\ ~msw
  /\ now > 0
  /\ exchangesSinceLogin = 1
  /\ tasks[1].op = "logout"
  /\ tasks[1].result = "ok"
  /\ StorageNow = logoutStorage(StorageNow)
  /\ store = storeLogout(store)

\* C15. For every non-success response of the token-exchange endpoint,
\* handleCallback fails with an error that identifies the status code, leaves
\* the token store as it was and sends no second exchange request.
C15_ExchangeFailureIdentifiesStatus ==
  [][ \A t \in Tasks, status \in EXCHANGE_ERROR_STATUS, hasMessage \in BOOLEAN :
        ExchangeRejected(t, status, hasMessage)
        => /\ tasks'[t].pc = "done"
           /\ tasks'[t].result = ExchangeError(status, FALSE)
           /\ tokenStore' = tokenStore
           /\ exchangesSinceLogin' = exchangesSinceLogin
           /\ \A u \in Tasks : tasks'[u].pc # "exch" ]_vars

\* C16. Every token write (code exchange, refresh, mock login) replaces the
\* whole record and stores expires_at = time of the write + expires_in * 1000
\* for the expires_in being written (3600 when the payload has none), taking
\* nothing from the record that was there.
WrittenLifetime(e) == IF e = 0 THEN DEFAULT_EXPIRES_IN ELSE e

C16_ExpiryRecomputedOnWrite ==
  [][ /\ \A t \in {u \in Tasks : tasks[u].pc = "exch"}, a \in AccessTokens,
            rt \in RefreshTokens, e \in ExpiresIns, user \in BOOLEAN :
           ExchangeResponse(t, TRUE, a, rt, e, user)
           => tokenStore' =
                [present |-> TRUE, access_token |-> a, refresh_token |-> rt,
                 expires_in |-> WrittenLifetime(e),
                 expires_at |-> now + WrittenLifetime(e) * 1000]
      /\ \A p \in PendingProms, a \in AccessTokens, rt \in RefreshTokens,
            e \in ExpiresIns :
           RefreshSettle(p, TRUE, a, rt, e)
           => tokenStore' =
                [present |-> TRUE, access_token |-> a, refresh_token |-> rt,
                 expires_in |-> WrittenLifetime(e),
                 expires_at |-> now + WrittenLifetime(e) * 1000]
      /\ \A t \in {u \in Tasks : msw /\ Startable(u)}, s \in ReceivedStates :
           StartCallback(t, s) /\ tasks'[t].result = "ok"
           => /\ tokenStore'.present
              /\ tokenStore'.expires_in = DEFAULT_EXPIRES_IN
              /\ tokenStore'.expires_at = now + DEFAULT_EXPIRES_IN * 1000
      /\ tokenStore' # tokenStore /\ tokenStore'.present
           => tokenStore'.expires_at = now' + tokenStore'.expires_in * 1000 ]_vars

\* A refresh at a later time overwrote the record of the session with a
\* shorter-lived token set, whose expiry counts from the time of that write.
C16_Witness ==
  /\ now > 0
  /\ tasks[1].op = "refresh"
  /\ tasks[1].result = "ok"
  /\ tokenStore.expires_in = 120
  /\ tokenStore.expires_at = now + 120000

\* C17. After a successful refresh() the stored access token is the one of the
\* response, and the stored refresh token is the response's when it has one,
\* and otherwise the one that was stored when the refresh started.
C17_RefreshTokenRotation ==
  [][ /\ \A p \in PromIds :
           proms[p].st # "pending" /\ proms'[p].st = "pending"
           => proms'[p].rt = tokenStore.refresh_token /\ proms'[p].rt # 0
      /\ \A p \in PendingProms, a \in AccessTokens, rt \in RefreshTokens \cup {0},
            e \in ExpiresIns :
           RefreshSettle(p, TRUE, a, rt, e)
           => /\ tokenStore'.present
              /\ tokenStore'.access_token = a
              /\ rt # 0 => tokenStore'.refresh_token = rt
              /\ rt = 0 => tokenStore'.refresh_token = proms[p].rt ]_vars

\* One refresh succeeded for every caller: the stored access token is the one
\* they received, and a refresh token is stored.
C17_Witness ==
  /\ \A t \in Tasks : tasks[t].op = "refresh" /\ tasks[t].result = "ok"
                      /\ tasks[t].got = tokenStore.access_token
  /\ tokenStore.refresh_token # 0
  /\ refreshInFlight = 0

\* C18. Retrieval from ephemeral storage is destructive for the verifier and
\* for the state: a retrieve returns what is stored and leaves nothing, and
\* only a store puts a value back, so the next retrieve without a store in
\* between returns absent.
C18_RetrievalDestructive ==
  [][ \A t \in Tasks :
        /\ RetrievePKCEVerifier(t)
           => /\ tasks'[t].got = pkceVerifier
              /\ pkceVerifier' = 0
              /\ oauthState' = oauthState
        /\ RetrieveOAuthState(t)
           => /\ tasks'[t].st = oauthState
              /\ oauthState' = NoState
              /\ pkceVerifier' = pkceVerifier
        /\ pkceVerifier' # 0 /\ pkceVerifier' # pkceVerifier
           => \E u \in Tasks : StorePKCEVerifier(u, pkceVerifier')
        /\ oauthState' # NoState /\ oauthState' # oauthState
           => \E u \in Tasks : StoreOAuthState(u, oauthState') ]_vars

\* One caller got the stored verifier, the next got absent; likewise for the
\* state.
C18_Witness ==
  /\ tasks[1].op = "retrievePKCEVerifier" /\ tasks[1].got = 2
  /\ tasks[2].op = "retrievePKCEVerifier" /\ tasks[2].got = 0
  /\ tasks[3].op = "retrieveOAuthState" /\ tasks[3].st = <<1, 2>>
  /\ pkceVerifier = 0
  /\ oauthState = NoState

\* C19. When initiateLogin() returns with state S, ephemeral storage holds S
\* as the CSRF state and the PKCE verifier of this attempt, and nothing of an
\* earlier attempt.
C19_LoginPersistsVerifierAndState ==
  [][ \A t \in Tasks, s \in LoginStates :
        /\ \A v \in Verifiers \cup {0} :
             LoginResponse(t, TRUE, v, s)
             => oauthState' = s /\ pkceVerifier' = v /\ tasks'[t].st = s
        /\ \A v \in Verifiers :
             HashDone(t, v, s)
             => oauthState' = s /\ pkceVerifier' = v /\ tasks'[t].st = s ]_vars

\* C20. validateState(a, b) is true exactly when a and b are both non-empty
\* and equal character for character: false for a null or empty input, for
\* a length mismatch and for equal-length strings differing anywhere.
C20_ValidateStateIffEqual ==
  /\ \A a \in StateStrings, b \in StateStrings :
       validateState(a, b) = (a # <<>> /\ b # <<>> /\ a = b)
  /\ \A t \in Tasks :
       tasks[t].op = "validateState"
       => (tasks[t].result = "true")
            = /\ Len(tasks[t].st) > 0
              /\ Len(oauthState) = Len(tasks[t].st)
              /\ \A i \in 1..Len(oauthState) : tasks[t].st[i] = oauthState[i]

\* validateState returned false for two strings of equal length that differ
\* in their first character only.
C20_Witness ==
  /\ oauthState = <<3, 2>>
  /\ tasks[1].op = "validateState"
  /\ tasks[1].st = <<1, 2>>
  /\ tasks[1].result = "false"

(* C21: initiateLogin() with no client id configured fails (with a           *)
(* ConfigurationError): it does not return an authorization URL and state,   *)
(* and it persists neither a verifier nor a state.                           *)
C21_MissingConfigurationFails ==
  [][\A t \in {u \in Tasks : tasks[u].op = "login" /\ tasks[u].pc \in {"hash", "login"}} :
       (~clientId /\ tasks'[t].pc = "done")
         => /\ tasks'[t].result # "ok"
            /\ oauthState' = oauthState
            /\ pkceVerifier' = pkceVerifier]_vars

(* C22: the state a successful login initiation returns is exactly 32        *)
(* characters long and alphanumeric, on the mock path and on the backend     *)
(* path alike.                                                               *)
C22_LoginStateIs32Alphanumeric ==
  [][\A t \in {u \in Tasks : tasks[u].op = "login" /\ tasks[u].pc \in {"hash", "login"}} :
       (tasks'[t].pc = "done" /\ tasks'[t].result = "ok")
         => /\ Len(tasks'[t].st) = STATE_LENGTH
            /\ \A i \in 1..Len(tasks'[t].st) : tasks'[t].st[i] \in Alphanumeric]_vars

(* C23: the holder of the pending refresh is cleared once the refresh has    *)
(* settled, with success or with failure: a refresh() called when no refresh *)
(* is pending, with a refresh token stored, starts a new exchange and never  *)
(* receives the result of the earlier one.                                   *)
C23_HolderClearedAfterSettle ==
  [][ /\ (PendingProms' = {} => refreshInFlight' = 0)
      /\ \A t \in Tasks :
           /\ Starts(t, "refresh")
           /\ PendingProms = {}
           /\ tokenStore.refresh_token # 0
           => /\ tasks'[t].pc = "refresh"
              /\ tasks'[t].wait \in PendingProms'
              /\ tasks'[t].wait = refreshInFlight' ]_vars

(* C24: when several wrapped requests were sent with the same access token   *)
(* and each is answered 401, the refresh endpoint is called once for that    *)
(* token, in every order of the 401 responses and the refresh response: a    *)
(* 401 for a token that a refresh has replaced already starts no exchange.   *)
C24_OneRefreshPerToken ==
  [][\A t \in {u \in Tasks : tasks[u].pc = "api"} :
       /\ tasks'[t].pc = "apiRefresh"
       /\ tokenStore.present
       /\ tasks[t].got # tokenStore.access_token
       => PendingProms' \subseteq PendingProms]_vars

(* C25: once logout() has returned, the token store stays empty until the    *)
(* next successful handleCallback, also when a refresh was in flight at the  *)
(* logout and its response arrives afterwards.  (No callback runs in this    *)
(* specification.)                                                           *)
C25_EmptyAfterLogout ==
  (tasks[LogoutCaller].op = "logout" /\ tasks[LogoutCaller].pc = "done")
    => tokenStore = NoTokens

(* C26: whenever no auth operation is in progress, the auth store has        *)
(* isAuthenticated = true only if the token store holds a record with an     *)
(* access token, and after initialize() has returned success: false the      *)
(* store has isAuthenticated = false.                                        *)
C26_StoreAgreesWithTokenStore ==
  (\A t \in Tasks : tasks[t].pc \in {"idle", "done"})
    => /\ store.isAuthenticated => (tokenStore.present /\ tokenStore.access_token # 0)
       /\ \A t \in Tasks :
            (tasks[t].op = "init" /\ tasks[t].result # "ok") => ~store.isAuthenticated

(* C27: the callback page enters 'success' only after the exchange of        *)
(* handleCallback has completed successfully; when the callback fails the    *)
(* page enters 'error' and never 'success'.                                  *)
C27_SuccessOnlyAfterExchange ==
  \A t \in Tasks :
    /\ tasks[t].page = "success"
         => /\ tasks[t].got # 0
            /\ ~(tasks[t].pc = "done" /\ tasks[t].result # "ok")
    /\ (tasks[t].op \in StoreOps /\ tasks[t].pc = "done" /\ tasks[t].result # "ok")
         => tasks[t].page = "error"

(* C28: when the refreshToken action of the store fails, the store ends      *)
(* logged out (isAuthenticated false, tokens null, user null), the token     *)
(* store is empty, and the error field holds the failure message.            *)
C28_FailedStoreRefreshLogsOut ==
  [][\A t \in Tasks :
       /\ tasks'[t].op = "storeRefresh"
       /\ tasks'[t].pc = "done"
       /\ tasks'[t].result # "ok"
       /\ tasks'[t] # tasks[t]
       => /\ ~store'.isAuthenticated
          /\ store'.tokens = NoTokens
          /\ ~store'.user
          /\ tokenStore' = NoTokens
          /\ store'.error = tasks'[t].result]_vars

(* C29: refresh() called with no refresh token stored fails without sending  *)
(* a request and leaves the token store empty, also while another refresh is *)
(* in flight: the caller does not await the pending exchange.                *)
C29_NoRefreshTokenFailsAtOnce ==
  [][\A t \in Tasks :
       (Starts(t, "refresh") /\ tokenStore.refresh_token = 0)
         => /\ tasks'[t].pc = "done"
            /\ tasks'[t].result = "RefreshFailed"
            /\ tasks'[t].wait = 0
            /\ proms' = proms
            /\ refreshInFlight' = refreshInFlight
            /\ tokenStore' = NoTokens]_vars

\* A refresh() call has failed at once, with the token store empty, while the
\* exchange another caller started is still in flight.
C29_Witness ==
  /\ tokenStore = NoTokens
  /\ refreshInFlight # 0
  /\ proms[refreshInFlight].st = "pending"
  /\ \E t \in Tasks, u \in Tasks :
       /\ tasks[t].op = "refresh" /\ tasks[t].pc = "done"
       /\ tasks[t].result = "RefreshFailed" /\ tasks[t].refreshes = 1
       /\ AwaitingRefresh(tasks[u]) /\ tasks[u].wait = refreshInFlight

(* C30: for non-empty inputs of equal length validateState examines every    *)
(* character position: the number of comparisons equals the length of the    *)
(* strings, wherever the first mismatch is.                                  *)
C30_ComparesEveryPosition ==
  [][\A t \in Tasks :
       /\ Starts(t, "validateState")
       /\ Len(oauthState) > 0
       /\ Len(tasks'[t].st) = Len(oauthState)
       => tasks'[t].comparisons = Len(oauthState)]_vars

\* validateState has compared two strings of the longest length that differ
\* in their first character, and has examined every position.
C30_Witness ==
  /\ tasks[1].op = "validateState"
  /\ tasks[1].result = "false"
  /\ Len(oauthState) = MaxStateLen
  /\ Len(tasks[1].st) = Len(oauthState)
  /\ tasks[1].st[1] # oauthState[1]
  /\ tasks[1].comparisons = Len(oauthState)

====
